---- MODULE Spec2Model ----
(***************************************************************************)
(* Envelope reconciliation of budget_dashboard_demo.py: process_data walks *)
(* the month index once, carrying rollovers, last known allocations and    *)
(* the balance-snapshot anchor from month to month.                        *)
(*                                                                         *)
(* Money is an integer number of cents; round(x, 2) of a whole number of   *)
(* cents is that number, so Round2 leaves its argument as it is.  A month  *)
(* key "YYYY-MM" is the integer YYYYMM: comparing two such strings         *)
(* character by character orders them as the integers are ordered.  A      *)
(* transaction's date is kept as its month only: BUDGET_START_DATE is the  *)
(* first day of a month, and everything else reads year_month.             *)
(***************************************************************************)
EXTENDS Integers, Sequences, FiniteSets, TLC

\* ------------------------------------------------------------------------
\* Configuration (lines 15-27)
\* ------------------------------------------------------------------------
BUDGET_START_MONTH == 202511
EXPECTED_MONTHLY_INCOME == 524500
INCOME_CATEGORIES == {"Wages"}
HEALTH_EXCLUSIONS == {"Travel", "Other", "General", "Car services"}
UNTRACKED_EXCLUSIONS == {"Credit card payments", "Transfers"}
RECURRING_ENVELOPES ==
    {"Rent", "Music & audio", "Home insurance", "Auto insurance", "Medical",
     "Student loan payments", "Investment transfers", "Other entertainment",
     "Fitness", "Games", "Phone & internet", "Other travel", "Emergency fund",
     "Car services"}
VARIABLE_ENVELOPES ==
    {"Restaurants & bars", "Groceries", "Clothing & accessories",
     "Events & recreation", "Gas & EV charging", "Coffee shops",
     "Other food & drink", "Personal care", "Retail", "Pet supplies"}

\* ------------------------------------------------------------------------
\* Bounds of the model
\* ------------------------------------------------------------------------
NMonths == 4       \* calendar months the inputs may name
MaxRows == 2       \* input rows beside the base rows, envelope runs
MaxSnapRows == 3   \* input rows beside the base rows, snapshot runs
MaxSumRows == 2    \* input rows beside the base rows, summary runs
MaxQueue == 3      \* transfers the page's queue may hold

\* transaction rows drawn where cells may be empty or unparseable
MaxCsvRows == 2

\* input rows of the runs whose months the page then views
MaxViewRows == 2

\* The calendar months the inputs may name: NMonths consecutive months from
\* 2025-10, the month before the ledger start.
MonthKey(i) == LET k == 8 + i IN (2025 + (k \div 12)) * 100 + (k % 12) + 1
Months == {MonthKey(i) : i \in 1..NMonths}

None == "None"

\* "is None" in process_data, "=== null" in the page
IsNone(v) == ToString(v) = ToString(None)

\* ------------------------------------------------------------------------
\* Helpers
\* ------------------------------------------------------------------------
Round2(x) == x

Abs(x) == IF x < 0 THEN -x ELSE x

\* {}
EmptyDict == [x \in {} |-> 0]

\* dict.get(k, default)
Get(d, k, default) == IF k \in DOMAIN d THEN d[k] ELSE default

\* d[k] = v on a dict
Put(d, k, v) == [x \in (DOMAIN d) \cup {k} |-> IF x = k THEN v ELSE d[x]]

RECURSIVE SumSeq(_)
SumSeq(s) == IF s = <<>> THEN 0 ELSE Head(s) + SumSeq(Tail(s))

\* sum of a dict's values
RECURSIVE SumFn(_)
SumFn(f) ==
    IF DOMAIN f = {} THEN 0
    ELSE LET k == CHOOSE x \in DOMAIN f : TRUE
         IN f[k] + SumFn([x \in (DOMAIN f) \ {k} |-> f[x]])

\* sorted(..., reverse=True): the same entries, latest first
RECURSIVE SortedListDescending(_)
SortedListDescending(S) ==
    IF S = {} THEN <<>>
    ELSE LET hi == CHOOSE x \in S : \A y \in S : y <= x
         IN <<hi>> \o SortedListDescending(S \ {hi})

\* sorted(list(set)): ascending, one entry per element
RECURSIVE SortedList(_)
SortedList(S) ==
    IF S = {} THEN <<>>
    ELSE LET lo == CHOOSE x \in S : \A y \in S : x <= y
         IN <<lo>> \o SortedList(S \ {lo})

SeqToSet(s) == {s[k] : k \in DOMAIN s}

\* ------------------------------------------------------------------------
\* Inputs: the four CSV files and the clock
\* ------------------------------------------------------------------------
VARIABLES
    trx_csv,        \* ALL_TRX.csv rows [month, date_cell, amount, amount_cell, status,
                    \* detailed, primary]
    budgets,        \* budgets.csv rows [month, category, allocated]
    transfers,      \* transfers.csv rows [month, from_category, to_category, amount]
    balances,       \* balances.csv rows [month, balance]
    now_month,      \* datetime.now() as a month key
    expected_monthly_income,  \* EXPECTED_MONTHLY_INCOME as the user set it (line 16)
    pc,             \* "start", "loop", "done": where process_data is; "page": the page is open
    months_sorted,  \* the month index
    pos,            \* how many months of the index the loop has processed
    acc,            \* the state the loop carries from month to month
    data_by_month,  \* dashboard_data["data_by_month"], DB.data_by_month in the page
    curMonth,       \* the month the page shows (line 1021)
    transferQueue,  \* the queued transfers (line 1022)
    whatifMode,     \* line 1026
    whatifDeltas    \* catName -> delta from the queued transfers (line 1027)

inputs == <<trx_csv, budgets, transfers, balances, now_month, expected_monthly_income>>
\* the script variables of the generated page
page == <<curMonth, transferQueue, whatifMode, whatifDeltas>>
vars == <<trx_csv, budgets, transfers, balances, now_month, expected_monthly_income,
          pc, months_sorted, pos, acc, data_by_month,
          curMonth, transferQueue, whatifMode, whatifDeltas>>

\* the inputs as one value, for the operators below
In == [trx |-> trx_csv, budgets |-> budgets, transfers |-> transfers,
       balances |-> balances, now |-> now_month,
       expected |-> expected_monthly_income]

\* ------------------------------------------------------------------------
\* load_transactions (lines 29-40)
\* ------------------------------------------------------------------------
IsPosted(r) == r.status = "posted"

\* what a cell of transactions.csv holds: a value that parses ("ok"), nothing
\* ("empty"), or text that is neither a number nor a date ("malformed");
\* the row's amount and month are meaningful only for an "ok" cell

\* pd.to_numeric(..., errors='coerce').fillna(0) (line 35): an empty or
\* unparseable Amount becomes 0
ToNumeric(r) == IF r.amount_cell = "ok" THEN r.amount ELSE 0

\* pd.to_datetime (line 33) raises on a date it cannot parse
Raises(csv) == \E k \in DOMAIN csv : csv[k].date_cell = "malformed"

\* a row without Posted Date and Authorized Date has the date NaT, which is
\* in no month and compares false with every date (lines 33-34, 54, 89)
IsNaT(r) == r.date_cell = "empty"

WithSplit(r) ==
    LET amount_raw == ToNumeric(r)
    IN [month |-> r.month, date_cell |-> r.date_cell, amount_raw |-> amount_raw,
        detailed |-> r.detailed, primary |-> r.primary,
        expense |-> IF amount_raw < 0 THEN Abs(amount_raw) ELSE 0,
        refund |-> IF amount_raw > 0 THEN amount_raw ELSE 0]

\* df: the posted rows, with expense and refund split out
DfTrxAll(csv) ==
    LET posted == SelectSeq(csv, IsPosted)
    IN [k \in DOMAIN posted |-> WithSplit(posted[k])]

\* dict(zip(detailed, primary)): a later row overwrites an earlier one
RECURSIVE CatMapping(_)
CatMapping(df) ==
    IF df = <<>> THEN EmptyDict
    ELSE LET n == Len(df)
         IN Put(CatMapping(SubSeq(df, 1, n - 1)), df[n].detailed, df[n].primary)

\* df_trx: the rows dated on or after BUDGET_START_DATE (line 54)
DfTrx(csv) ==
    LET OnOrAfterStart(r) == ~IsNaT(r) /\ r.month >= BUDGET_START_MONTH
    IN SelectSeq(DfTrxAll(csv), OnOrAfterStart)

\* ------------------------------------------------------------------------
\* The month index (lines 56-62) and the tracked categories (line 73)
\* ------------------------------------------------------------------------
PlannedMonths(in) ==
    {in.budgets[k].month : k \in DOMAIN in.budgets}
        \cup {in.transfers[k].month : k \in DOMAIN in.transfers}

MonthsSet(in) ==
    {in.now} \cup PlannedMonths(in)
        \cup {r.month : r \in SeqToSet(DfTrx(in.trx))}

MonthsSorted(in) == SortedList(MonthsSet(in))

BudgetedCats(in) == {in.budgets[k].category : k \in DOMAIN in.budgets}

IsFuture(m, in) == m > in.now

\* ------------------------------------------------------------------------
\* One iteration of the month loop (lines 78-239)
\* ------------------------------------------------------------------------

\* running_allocations, rollovers = {}, {}; last_known_balance = 0;
\* last_snapshot_month = None; cumulative_txns_since_snapshot = 0.0;
\* cat_history = {cat: []} (lines 64-76)
InitialAcc(in) ==
    [running_allocations |-> EmptyDict,
     rollovers |-> EmptyDict,
     last_known_balance |-> 0,
     last_snapshot_month |-> None,
     cumulative_txns_since_snapshot |-> 0,
     cat_history |-> [c \in BudgetedCats(in) |-> <<>>]]

\* df_balances[df_balances["month"] == m]
BalRows(m, in) ==
    LET OfMonth(r) == r.month = m
    IN SelectSeq(in.balances, OfMonth)

\* lines 82-86 without the reset of line 87
AfterSnapshotNoReset(a, m, in) ==
    LET bal_row == BalRows(m, in)
    IN IF bal_row /= <<>>
       THEN [a EXCEPT !.last_known_balance = bal_row[Len(bal_row)].balance,
                      !.last_snapshot_month = m]
       ELSE a

\* lines 82-87: a snapshot of this month becomes the anchor and resets the
\* accumulator
AfterSnapshot(a, m, in) ==
    LET bal_row == BalRows(m, in)
    IN IF bal_row /= <<>>
       THEN [a EXCEPT !.last_known_balance = bal_row[Len(bal_row)].balance,
                      !.last_snapshot_month = m,
                      !.cumulative_txns_since_snapshot = 0]
       ELSE a

\* m_trx_all (line 89)
MTrxAll(m, in) ==
    LET OfMonth(r) == ~IsNaT(r) /\ r.month = m
    IN SelectSeq(DfTrxAll(in.trx), OfMonth)

\* m_trx_env (line 104)
MTrxEnv(m, in) ==
    LET OfMonth(r) == r.month = m
    IN SelectSeq(DfTrx(in.trx), OfMonth)

\* _inc (line 90)
MonthInc(m, in) ==
    LET Pos(r) == r.amount_raw > 0
        rows == SelectSeq(MTrxAll(m, in), Pos)
    IN SumSeq([k \in DOMAIN rows |-> rows[k].amount_raw])

\* _exp (line 91)
MonthExp(m, in) ==
    LET Neg(r) == r.amount_raw < 0
        rows == SelectSeq(MTrxAll(m, in), Neg)
    IN SumSeq([k \in DOMAIN rows |-> Abs(rows[k].amount_raw)])

\* live_bank_balance (line 92)
LiveBankBalance(a, m, in) ==
    Round2(a.last_known_balance + MonthInc(m, in) - MonthExp(m, in))

\* lines 94-95
Accumulate(a, m, in) ==
    IF ~IsFuture(m, in)
    THEN [a EXCEPT !.cumulative_txns_since_snapshot =
                       @ + Round2(MonthInc(m, in) - MonthExp(m, in))]
    ELSE a

\* m_transfers (line 96)
MTransfers(m, in) ==
    LET OfMonth(r) == r.month = m
    IN SelectSeq(in.transfers, OfMonth)

\* lines 97-101: t_out, summed row by row over the tracked categories only
RECURSIVE TOut(_, _)
TOut(rows, cats) ==
    IF rows = <<>> THEN [c \in cats |-> 0]
    ELSE LET n == Len(rows)
             t == TOut(SubSeq(rows, 1, n - 1), cats)
             f == rows[n].from_category
         IN IF f \in DOMAIN t THEN [t EXCEPT ![f] = @ + Round2(rows[n].amount)] ELSE t

\* t_in with "=" written for "+=" at line 101
RECURSIVE TInOverwritten(_, _)
TInOverwritten(rows, cats) ==
    IF rows = <<>> THEN [c \in cats |-> 0]
    ELSE LET n == Len(rows)
             t == TInOverwritten(SubSeq(rows, 1, n - 1), cats)
             to == rows[n].to_category
         IN IF to \in DOMAIN t THEN [t EXCEPT ![to] = Round2(rows[n].amount)] ELSE t

\* lines 97-101: t_in
RECURSIVE TIn(_, _)
TIn(rows, cats) ==
    IF rows = <<>> THEN [c \in cats |-> 0]
    ELSE LET n == Len(rows)
             t == TIn(SubSeq(rows, 1, n - 1), cats)
             to == rows[n].to_category
         IN IF to \in DOMAIN t THEN [t EXCEPT ![to] = @ + Round2(rows[n].amount)] ELSE t

\* v = df_budgets[(month == m) & (category == cat)] (line 112)
BudgetRows(m, cat, in) ==
    LET Hit(r) == r.month = m /\ r.category = cat
    IN SelectSeq(in.budgets, Hit)

\* alloc_this_month (lines 110-114)
AllocThisMonth(m, cat, in) ==
    LET v == BudgetRows(m, cat, in)
    IN IF v /= <<>> THEN Round2(v[1].allocated) ELSE 0

\* running_allocations after line 115
RunningAfter(ra, m, cat, in) ==
    IF BudgetRows(m, cat, in) /= <<>>
    THEN Put(ra, cat, AllocThisMonth(m, cat, in))
    ELSE ra

\* alloc with the fallback of line 124 left out
AllocNoFallback(ra, m, cat, in) == AllocThisMonth(m, cat, in)

\* alloc with the is_future test of line 121 left out
AllocAlwaysFallback(ra, m, cat, in) == Get(RunningAfter(ra, m, cat, in), cat, 0)

\* alloc (lines 121-124)
AllocUsed(ra, m, cat, in) ==
    IF IsFuture(m, in)
    THEN AllocThisMonth(m, cat, in)
    ELSE Get(RunningAfter(ra, m, cat, in), cat, 0)

\* spent with the category filter of line 131 forgotten
SpentAnyCategory(m, cat, in) ==
    LET cat_trx == MTrxEnv(m, in)
    IN Round2(SumSeq([k \in DOMAIN cat_trx |-> cat_trx[k].expense]))

\* spent (lines 129-132)
Spent(m, cat, in) ==
    LET OfCat(r) == r.detailed = cat
        cat_trx == SelectSeq(MTrxEnv(m, in), OfCat)
    IN Round2(SumSeq([k \in DOMAIN cat_trx |-> cat_trx[k].expense]))

\* refunds (lines 129-132)
Refunds(m, cat, in) ==
    LET OfCat(r) == r.detailed = cat
        cat_trx == SelectSeq(MTrxEnv(m, in), OfCat)
    IN Round2(SumSeq([k \in DOMAIN cat_trx |-> cat_trx[k].refund]))

\* roll with the carried balance dropped
RollForgotten(a, cat) == 0

\* roll (line 125)
Roll(a, cat) == Get(a.rollovers, cat, 0)

\* The body of "for cat in budgeted_cats" up to line 148, for one category.
\* alloc and refunds are locals of the loop, kept here beside the emitted
\* fields.
Envelope(a, m, cat, in) ==
    LET cats == BudgetedCats(in)
        alloc_this_month == AllocThisMonth(m, cat, in)
        alloc == AllocUsed(a.running_allocations, m, cat, in)
        roll == Roll(a, cat)
        t_in == TIn(MTransfers(m, in), cats)
        t_out == TOut(MTransfers(m, in), cats)
        assigned == Round2(alloc + Get(t_in, cat, 0) - Get(t_out, cat, 0))
        total_budgeted == Round2(roll + assigned)
        spent == Spent(m, cat, in)
        refunds == Refunds(m, cat, in)
        bal == Round2(total_budgeted - spent + refunds)
    IN [name |-> cat,
        group |-> Get(CatMapping(DfTrxAll(in.trx)), cat, "General"),
        alloc_this_month |-> alloc_this_month,
        alloc |-> alloc,
        budgeted |-> total_budgeted,
        spent |-> spent,
        refunds |-> refunds,
        available |-> bal,
        is_recurring |-> cat \in RECURRING_ENVELOPES,
        is_variable |-> cat \in VARIABLE_ENVELOPES]

\* whether the health totals count the envelope (line 137)
CountsForHealth(e) ==
    e.name \notin HEALTH_EXCLUSIONS /\ e.group \notin HEALTH_EXCLUSIONS

\* what the envelope adds to tot_holes (lines 138-139)
HoleOf(e) ==
    IF CountsForHealth(e) /\ e.available < -1 THEN Abs(e.available) ELSE 0

\* tot_health_pos with the planned allocation of a future month left in
HealthPosNeverSubtracts(e, is_future) ==
    IF CountsForHealth(e) /\ ~(e.available < -1) /\ e.available > 1
    THEN e.available ELSE 0

\* what the envelope adds to tot_health_pos (lines 140-145)
HealthPosOf(e, is_future) ==
    IF CountsForHealth(e) /\ ~(e.available < -1)
    THEN IF is_future
         THEN LET surplus == Round2(e.available - e.alloc_this_month)
              IN IF surplus > 1 THEN surplus ELSE 0
         ELSE IF e.available > 1 THEN e.available ELSE 0
    ELSE 0

\* a total that leaves out the envelopes net health leaves out
CashOfCounted(e) == IF CountsForHealth(e) THEN e.available ELSE 0

\* what the envelope adds to total_available_cash (line 146): its balance,
\* whatever its name and group
CashOf(e) == e.available

\* uncategorized_cats (lines 176-185): expense per detailed category with no
\* envelope, the untracked exclusions left out
RECURSIVE UncategorizedCats(_, _)
UncategorizedCats(rows, cats) ==
    IF rows = <<>> THEN EmptyDict
    ELSE LET n == Len(rows)
             u == UncategorizedCats(SubSeq(rows, 1, n - 1), cats)
             tx == rows[n]
         IN IF /\ tx.expense > 0
               /\ tx.detailed \notin cats
               /\ tx.detailed \notin UNTRACKED_EXCLUSIONS
               /\ tx.primary \notin UNTRACKED_EXCLUSIONS
            THEN Put(u, tx.detailed, Get(u, tx.detailed, 0) + tx.expense)
            ELSE u

\* uncategorized_spend with the untracked exclusions counted like any other
\* category without an envelope
RECURSIVE UncategorizedSpendAll(_, _)
UncategorizedSpendAll(rows, cats) ==
    IF rows = <<>> THEN 0
    ELSE LET n == Len(rows)
             tx == rows[n]
         IN UncategorizedSpendAll(SubSeq(rows, 1, n - 1), cats)
              + (IF tx.expense > 0 /\ tx.detailed \notin cats THEN tx.expense ELSE 0)

\* uncategorized_spend (lines 177-184)
RECURSIVE UncategorizedSpend(_, _)
UncategorizedSpend(rows, cats) ==
    IF rows = <<>> THEN 0
    ELSE LET n == Len(rows)
             tx == rows[n]
         IN UncategorizedSpend(SubSeq(rows, 1, n - 1), cats)
              + (IF /\ tx.expense > 0
                    /\ tx.detailed \notin cats
                    /\ tx.detailed \notin UNTRACKED_EXCLUSIONS
                    /\ tx.primary \notin UNTRACKED_EXCLUSIONS
                 THEN tx.expense ELSE 0)

\* posted_income (lines 189-196 and 206-212)
PostedIncome(m, in) ==
    LET IncomeMask(r) ==
            /\ r.amount_raw > 0
            /\ (r.primary \in INCOME_CATEGORIES \/ r.detailed \in INCOME_CATEGORIES)
        Pos(r) == r.amount_raw > 0
        rows == MTrxAll(m, in)
        income == SelectSeq(rows, IncomeMask)
        positive == SelectSeq(rows, Pos)
    IN IF rows /= <<>> /\ INCOME_CATEGORIES /= {}
       THEN Round2(SumSeq([k \in DOMAIN income |-> income[k].amount_raw]))
       ELSE IF rows /= <<>>
            THEN Round2(SumSeq([k \in DOMAIN positive |-> positive[k].amount_raw]))
            ELSE 0

\* other_income with only the income categories left out
OtherIncomeNotWages(m, in) ==
    LET OtherMask(r) ==
            /\ r.amount_raw > 0
            /\ ~(r.primary \in INCOME_CATEGORIES \/ r.detailed \in INCOME_CATEGORIES)
        other == SelectSeq(MTrxAll(m, in), OtherMask)
    IN Round2(SumSeq([k \in DOMAIN other |-> other[k].amount_raw]))

\* other_income (lines 197-212)
OtherIncome(m, in) ==
    LET excl == INCOME_CATEGORIES \cup UNTRACKED_EXCLUSIONS
        OtherMask(r) ==
            /\ r.amount_raw > 0
            /\ ~(r.primary \in excl \/ r.detailed \in excl)
        rows == MTrxAll(m, in)
        other == SelectSeq(rows, OtherMask)
    IN IF rows /= <<>> /\ INCOME_CATEGORIES /= {}
       THEN Round2(SumSeq([k \in DOMAIN other |-> other[k].amount_raw]))
       ELSE 0

\* snapshot_balance (lines 214-219)
SnapshotBalance(m, in) ==
    LET bal_snap == BalRows(m, in)
    IN IF bal_snap /= <<>> THEN Round2(bal_snap[Len(bal_snap)].balance) ELSE None

\* The whole body of "for m in months_sorted": the accumulator after the
\* month and the month_data stored at line 239.  The per-category ledger
\* lists (lines 151-159) are display text and are left out.
StepMonth(a, m, in) ==
    LET cats == BudgetedCats(in)
        is_future == IsFuture(m, in)
        a1 == AfterSnapshot(a, m, in)
        live_bank_balance == LiveBankBalance(a1, m, in)
        a2 == Accumulate(a1, m, in)
        total_rollover_into_month ==
            Round2(SumFn([c \in cats |-> Get(a.rollovers, c, 0)]))
        \* one pass of the category loop per tracked category
        RECURSIVE Envelopes(_)
        Envelopes(S) ==
            IF S = {} THEN EmptyDict
            ELSE LET c == CHOOSE x \in S : TRUE
                 IN (c :> Envelope(a, m, c, in)) @@ Envelopes(S \ {c})
        env == Envelopes(cats)
        tot_holes == SumFn([c \in cats |-> HoleOf(env[c])])
        tot_health_pos == SumFn([c \in cats |-> HealthPosOf(env[c], is_future)])
        new_funding_total == SumFn([c \in cats |-> env[c].alloc_this_month])
        total_available_cash == SumFn([c \in cats |-> CashOf(env[c])])
        \* line 115, line 148, line 149
        running == [c \in (DOMAIN a.running_allocations)
                              \cup {x \in cats : BudgetRows(m, x, in) /= <<>>} |->
                       Get(RunningAfter(a.running_allocations, m, c, in), c, 0)]
        rollovers == [c \in (DOMAIN a.rollovers) \cup cats |->
                         IF c \in cats THEN env[c].available ELSE a.rollovers[c]]
        history == [c \in cats |->
                       Append(a.cat_history[c],
                              [month |-> m, available |-> env[c].available])]
        \* lines 161-163: prev_available is read after the append of line 149
        PrevAvailable(c) ==
            IF history[c] /= <<>> THEN history[c][Len(history[c])].available ELSE None
        categories ==
            [c \in cats |->
                [name |-> env[c].name, group |-> env[c].group,
                 alloc_this_month |-> env[c].alloc_this_month,
                 alloc |-> env[c].alloc,
                 budgeted |-> env[c].budgeted, spent |-> env[c].spent,
                 refunds |-> env[c].refunds, available |-> env[c].available,
                 prev_available |-> PrevAvailable(c),
                 is_recurring |-> env[c].is_recurring,
                 is_variable |-> env[c].is_variable]]
        summary ==
            [bank |-> live_bank_balance,
             last_snapshot |-> Round2(a2.last_known_balance),
             last_snapshot_month |-> a2.last_snapshot_month,
             txns_since_snapshot |-> Round2(a2.cumulative_txns_since_snapshot),
             rollover_into_month |-> total_rollover_into_month,
             excess |-> Round2(tot_health_pos),
             holes |-> Round2(tot_holes),
             net_health |-> Round2(tot_health_pos - tot_holes),
             new_funding |-> Round2(new_funding_total),
             total_enveloped |-> Round2(total_available_cash),
             posted_income |-> PostedIncome(m, in),
             other_income |-> OtherIncome(m, in),
             expected_income |-> in.expected,
             snapshot_balance |-> SnapshotBalance(m, in),
             uncategorized_spend |-> Round2(UncategorizedSpend(MTrxEnv(m, in), cats)),
             uncategorized_cats |-> UncategorizedCats(MTrxEnv(m, in), cats)]
    IN [acc |-> [a2 EXCEPT !.running_allocations = running,
                           !.rollovers = rollovers,
                           !.cat_history = history],
        month_data |-> [summary |-> summary, categories |-> categories,
                        is_future |-> is_future]]

\* ------------------------------------------------------------------------
\* process_data as a state machine
\* ------------------------------------------------------------------------

\* lines 46-76: load the files, build the index, reset the carried state
BuildIndex ==
    /\ pc = "start"
    /\ IF Raises(trx_csv)
       THEN \* load_transactions dies at line 33 and nothing is written
            /\ pc' = "aborted"
            /\ UNCHANGED <<months_sorted, acc, pos, data_by_month>>
       ELSE /\ months_sorted' = MonthsSorted(In)
            /\ acc' = InitialAcc(In)
            /\ pos' = 0
            /\ data_by_month' = EmptyDict
            /\ pc' = "loop"
    /\ UNCHANGED <<inputs, page>>

\* a month loop that asks the clock again in every iteration instead of using
\* the current_month_str of line 52
ProcessMonthRereadingClock ==
    /\ pc = "loop"
    /\ pos < Len(months_sorted)
    /\ \E n \in Months :
          LET m == months_sorted[pos + 1]
              step == StepMonth(acc, m, [In EXCEPT !.now = n])
          IN /\ acc' = step.acc
             /\ data_by_month' = Put(data_by_month, m, step.month_data)
    /\ pos' = pos + 1
    /\ UNCHANGED <<inputs, pc, months_sorted, page>>

\* lines 78-239: the next month of the index
ProcessMonth ==
    /\ pc = "loop"
    /\ pos < Len(months_sorted)
    /\ LET m == months_sorted[pos + 1]
           step == StepMonth(acc, m, In)
       IN /\ acc' = step.acc
          /\ data_by_month' = Put(data_by_month, m, step.month_data)
    /\ pos' = pos + 1
    /\ UNCHANGED <<inputs, pc, months_sorted, page>>

\* lines 241-256: the loop is over and dashboard_data is returned
Finish ==
    /\ pc = "loop"
    /\ pos = Len(months_sorted)
    /\ pc' = "done"
    /\ UNCHANGED <<inputs, months_sorted, pos, acc, data_by_month, page>>

Next == BuildIndex \/ ProcessMonth \/ Finish

\* ------------------------------------------------------------------------
\* The inputs the runs draw from
\* ------------------------------------------------------------------------
\* the Primary Category the files give each Detailed Category
PrimaryOf(cat) ==
    CASE cat \in {"Groceries", "Coffee shops"} -> "Food and drink"
      [] cat = "Retail" -> "General merchandise"
      [] cat = "Personal care" -> "Personal care"
      [] cat = "Flights" -> "Travel"
      [] cat = "Wages" -> "Income"
      [] cat = "Bonus" -> "Wages"
      [] cat = "Credit card payments" -> "Loan payments"
      [] cat = "Account transfer" -> "Transfers"
      [] OTHER -> "Rent and utilities"

\* a transaction row with the state of its date and Amount cells
RawTrx(date_cell, m, amount_cell, amt, status, cat) ==
    [table |-> "trx",
     row |-> [month |-> m, date_cell |-> date_cell,
              amount |-> amt, amount_cell |-> amount_cell, status |-> status,
              detailed |-> cat, primary |-> PrimaryOf(cat)]]

\* a transaction row whose date and Amount parse
Trx(m, amt, status, cat) == RawTrx("ok", m, "ok", amt, status, cat)

Budget(m, cat, amt) ==
    [table |-> "budgets", row |-> [month |-> m, category |-> cat, allocated |-> amt]]

Transfer(m, f, t, amt) ==
    [table |-> "transfers",
     row |-> [month |-> m, from_category |-> f, to_category |-> t, amount |-> amt]]

Balance(m, bal) ==
    [table |-> "balances", row |-> [month |-> m, balance |-> bal]]

RECURSIVE SetToSeq(_)
SetToSeq(S) ==
    IF S = {} THEN <<>>
    ELSE LET x == CHOOSE y \in S : TRUE IN <<x>> \o SetToSeq(S \ {x})

\* the rows of one table among the drawn rows, in the order drawn
RowsOf(rows, table) ==
    LET OfTable(r) == r.table = table
        sel == SelectSeq(rows, OfTable)
    IN [k \in DOMAIN sel |-> sel[k].row]

\* every list of at most n rows of kinds, one list per multiset of rows
Draws(kinds, n) ==
    LET ks == SetToSeq(kinds)
    IN UNION {{[i \in DOMAIN idx |-> ks[idx[i]]] :
                 idx \in {s \in [1..k -> 1..Len(ks)] :
                            \A i \in 1..k : \A j \in 1..k : i < j => s[i] <= s[j]}} :
              k \in 0..n}

\* BudgetAllocation rows are unique per (month, category)
UniqueBudgetKeys(b) ==
    \A i \in DOMAIN b : \A j \in DOMAIN b :
        (b[i].month = b[j].month /\ b[i].category = b[j].category) => i = j

\* the page does not exist while process_data runs
NoPage ==
    /\ curMonth = None
    /\ transferQueue = <<>>
    /\ whatifMode = FALSE
    /\ whatifDeltas = EmptyDict

\* the files drawn from draws, the expected income set to one of incomes
InitConfigured(base_budgets, base_trx, draws, incomes) ==
    /\ expected_monthly_income \in incomes
    /\ \E d \in draws :
          /\ budgets = base_budgets \o RowsOf(d, "budgets")
          /\ transfers = RowsOf(d, "transfers")
          /\ trx_csv = base_trx \o RowsOf(d, "trx")
          /\ balances = RowsOf(d, "balances")
    /\ UniqueBudgetKeys(budgets)
    /\ now_month \in Months
    /\ pc = "start"
    /\ months_sorted = <<>>
    /\ pos = 0
    /\ acc = InitialAcc(In)
    /\ data_by_month = EmptyDict
    /\ NoPage

InitRows(base_budgets, base_trx, draws) ==
    InitConfigured(base_budgets, base_trx, draws, {EXPECTED_MONTHLY_INCOME})

InitWith(base_budgets, draws) == InitRows(base_budgets, <<>>, draws)

\* Envelope runs: Groceries is allocated 300.00 in the ledger's first month,
\* and at most MaxRows more rows of any of the three envelope inputs.
EnvKinds ==
    {Budget(m, c, 12000) : m \in Months, c \in {"Groceries", "Rent"}}
        \cup {Trx(m, a, "posted", "Groceries") : m \in Months, a \in {-25000, -31000}}
        \cup {Trx(m, 6000, "posted", "Rent") : m \in Months}
        \cup {Trx(m, -25000, "pending", "Groceries") : m \in Months}
        \cup {Transfer(m, "Groceries", t, 5000) : m \in Months, t \in {"Groceries", "Rent"}}
        \cup {Transfer(m, "Rent", "Groceries", 5000) : m \in Months}

EnvBase == <<Budget(BUDGET_START_MONTH, "Groceries", 30000).row>>

Init == InitWith(EnvBase, Draws(EnvKinds, MaxRows))

Spec == Init /\ [][Next]_vars

\* Snapshot runs: the same base row, and at most MaxSnapRows more rows:
\* balance snapshots, posted transactions, Rent allocations.
SnapKinds ==
    {Balance(m, b) : m \in Months, b \in {100000, 50000}}
        \cup {Trx(m, a, "posted", "Groceries") : m \in Months, a \in {-25000, 6000}}
        \cup {Budget(m, "Rent", 12000) : m \in Months}

InitSnap == InitWith(EnvBase, Draws(SnapKinds, MaxSnapRows))

SpecSnap == InitSnap /\ [][Next]_vars

\* Summary runs: beside the Groceries allocation, Groceries has spent 370.00
\* and been refunded 60.00 in the ledger's first month; at most MaxSumRows
\* more rows: allocations, a transfer out of Rent, expenses and deposits of
\* tracked, untracked, income and ignored categories.
SumKinds ==
    {Budget(m, c, 12000) : m \in Months, c \in {"Groceries", "Rent"}}
        \cup {Transfer(m, "Rent", "Groceries", 5000) : m \in Months}
        \cup {Trx(m, -8000, "posted", "Rent") : m \in Months}
        \cup {Trx(m, -4000, "posted", "Coffee shops") : m \in Months}
        \cup {Trx(m, -7000, "posted", "Credit card payments") : m \in Months}
        \cup {Trx(m, a, "posted", "Account transfer") : m \in Months, a \in {-9000, 9000}}
        \cup {Trx(m, 50000, "posted", c) : m \in Months, c \in {"Wages", "Bonus"}}

SumBaseTrx ==
    <<Trx(BUDGET_START_MONTH, -37000, "posted", "Groceries").row,
      Trx(BUDGET_START_MONTH, 6000, "posted", "Groceries").row>>

InitSum == InitRows(EnvBase, SumBaseTrx, Draws(SumKinds, MaxSumRows))

SpecSum == InitSum /\ [][Next]_vars

\* transactions.csv as exported: an Amount or a date cell may be empty or
\* hold text that does not parse
CsvKinds ==
    {RawTrx("ok", m, a, -25000, "posted", "Groceries") :
         m \in Months, a \in {"ok", "malformed"}}
        \cup {RawTrx(d, BUDGET_START_MONTH, "ok", -25000, "posted", "Groceries") :
                 d \in {"empty", "malformed"}}
        \cup {RawTrx("empty", BUDGET_START_MONTH, "empty", -25000, "posted", "Rent")}

InitCsv == InitWith(EnvBase, Draws(CsvKinds, MaxCsvRows))

SpecCsv == InitCsv /\ [][Next]_vars

\* process_data run to its end on inputs in: dashboard_data["data_by_month"]
RECURSIVE Walk(_, _, _, _)
Walk(a, ms, done, in) ==
    IF ms = <<>> THEN done
    ELSE LET step == StepMonth(a, Head(ms), in)
         IN Walk(step.acc, Tail(ms), (Head(ms) :> step.month_data) @@ done, in)

RunAll(in) == Walk(InitialAcc(in), MonthsSorted(in), EmptyDict, in)

\* ------------------------------------------------------------------------
\* What the properties below read
\* ------------------------------------------------------------------------
Tracked == BudgetedCats(In)

\* the months the loop has processed so far
Processed == DOMAIN data_by_month

IndexOf(m) == CHOOSE k \in DOMAIN months_sorted : months_sorted[k] = m

IsFirstIndexMonth(m) == IndexOf(m) = 1

\* the index month immediately preceding m
PrevMonth(m) == months_sorted[IndexOf(m) - 1]

Env(c, m) == data_by_month[m].categories[c]

Summary(m) == data_by_month[m].summary

RolloverIn(c, m) == IF IsFirstIndexMonth(m) THEN 0 ELSE Env(c, PrevMonth(m)).available

\* the sum of f over the set S
RECURSIVE SumOver(_, _)
SumOver(S, f) ==
    IF S = {} THEN 0
    ELSE LET x == CHOOSE y \in S : TRUE IN f[x] + SumOver(S \ {x}, f)

TransfersInto(c, m) ==
    SumOver({k \in DOMAIN transfers :
                transfers[k].month = m /\ transfers[k].to_category = c},
            [k \in DOMAIN transfers |-> transfers[k].amount])

TransfersOutOf(c, m) ==
    SumOver({k \in DOMAIN transfers :
                transfers[k].month = m /\ transfers[k].from_category = c},
            [k \in DOMAIN transfers |-> transfers[k].amount])

\* posted expenses of category c in month m: every one, or only those dated
\* on or after the ledger start
PostedExpenses(c, m, since) ==
    LET T(r) == /\ r.status = "posted" /\ r.month = m /\ r.detailed = c
                /\ r.amount < 0 /\ r.month >= since
    IN SumOver({k \in DOMAIN trx_csv : T(trx_csv[k])},
               [k \in DOMAIN trx_csv |-> -trx_csv[k].amount])

PostedRefunds(c, m, since) ==
    LET T(r) == /\ r.status = "posted" /\ r.month = m /\ r.detailed = c
                /\ r.amount > 0 /\ r.month >= since
    IN SumOver({k \in DOMAIN trx_csv : T(trx_csv[k])},
               [k \in DOMAIN trx_csv |-> trx_csv[k].amount])

HasExplicitRow(c, m) ==
    \E k \in DOMAIN budgets : budgets[k].month = m /\ budgets[k].category = c

ExplicitRow(c, m) ==
    budgets[CHOOSE k \in DOMAIN budgets : budgets[k].month = m /\ budgets[k].category = c]

\* the index months before m in which c has an explicit allocation row
EarlierExplicit(c, m) ==
    {months_sorted[k] : k \in 1..(IndexOf(m) - 1)} \cap {x \in Months : HasExplicitRow(c, x)}

Latest(S) == CHOOSE x \in S : \A y \in S : y <= x

\* the allocation of section 3 of the specification: the explicit row, else
\* for a past or current month the last known explicit allocation, else 0
SpecAllocation(c, m) ==
    IF HasExplicitRow(c, m) THEN ExplicitRow(c, m).allocated
    ELSE IF m <= now_month /\ EarlierExplicit(c, m) /= {}
         THEN ExplicitRow(c, Latest(EarlierExplicit(c, m))).allocated
         ELSE 0

Recurrence(c, m, since) ==
    LET budgeted == RolloverIn(c, m) + SpecAllocation(c, m)
                      + TransfersInto(c, m) - TransfersOutOf(c, m)
    IN /\ Env(c, m).budgeted = budgeted
       /\ Env(c, m).available =
              budgeted - PostedExpenses(c, m, since) + PostedRefunds(c, m, since)

\* C1 as stated: for every tracked category and index month, available is
\* rollover_in + allocation + transfers_in - transfers_out - spent + refunds
\* with spent and refunds the sums of all that month's posted expenses and
\* refunds of the category, and budgeted is the same without spent and refunds.
C1_Original ==
    \A m \in Processed : \A c \in Tracked : Recurrence(c, m, 0)

\* C1 amended: the same recurrence, with spent and refunds summed over the
\* posted transactions dated on or after the ledger start date only.
C1_Recurrence ==
    \A m \in Processed : \A c \in Tracked : Recurrence(c, m, BUDGET_START_MONTH)

\* C1 witness: a month after the first with a rollover, a transfer and spend
\* on one tracked category.
C1_Witness ==
    \E m \in Processed : \E c \in Tracked :
        /\ ~IsFirstIndexMonth(m)
        /\ RolloverIn(c, m) /= 0
        /\ TransfersInto(c, m) + TransfersOutOf(c, m) > 0
        /\ PostedExpenses(c, m, BUDGET_START_MONTH) > 0

\* C2: for a tracked category with an explicit allocation row in index month
\* m0 and none in a later past-or-current index month m1 nor in between, the
\* allocation used for m1 is the explicit allocation of m0.
C2_PastFallback ==
    \A m1 \in Processed : \A c \in Tracked :
        (/\ m1 <= now_month
         /\ ~HasExplicitRow(c, m1)
         /\ EarlierExplicit(c, m1) /= {})
        => LET m0 == Latest(EarlierExplicit(c, m1))
           IN /\ Env(c, m1).alloc = ExplicitRow(c, m0).allocated
              /\ Env(c, m1).budgeted =
                     RolloverIn(c, m1) + ExplicitRow(c, m0).allocated
                       + TransfersInto(c, m1) - TransfersOutOf(c, m1)

\* C2 witness, the end-to-end scenario: Groceries allocated 300.00 and 250.00
\* spent in one month, then a past month with no row and 310.00 spent, where
\* total_budgeted is 350.00 and available 40.00.
C2_Witness ==
    \E m1 \in Processed :
        /\ ~IsFirstIndexMonth(m1)
        /\ m1 <= now_month
        /\ LET m0 == PrevMonth(m1)
           IN /\ HasExplicitRow("Groceries", m0)
              /\ ExplicitRow("Groceries", m0).allocated = 30000
              /\ RolloverIn("Groceries", m0) = 0
              /\ Env("Groceries", m0).spent = 25000
              /\ Env("Groceries", m0).available = 5000
        /\ ~HasExplicitRow("Groceries", m1)
        /\ Env("Groceries", m1).spent = 31000
        /\ Env("Groceries", m1).alloc = 30000
        /\ Env("Groceries", m1).budgeted = 35000
        /\ Env("Groceries", m1).available = 4000

\* C3: in every index month strictly later than the current month, a tracked
\* category with no explicit row is allocated 0 whatever it was allocated
\* before, so its available is the previous month's plus transfers in, minus
\* transfers out, minus spend, plus refunds.
C3_FutureUnassigned ==
    \A m \in Processed : \A c \in Tracked :
        (m > now_month /\ ~HasExplicitRow(c, m))
        => /\ Env(c, m).alloc = 0
           /\ Env(c, m).available =
                  RolloverIn(c, m) + TransfersInto(c, m) - TransfersOutOf(c, m)
                    - Env(c, m).spent + Env(c, m).refunds

\* C3 witness: a future month without a row for a category that has a
\* non-zero last known allocation.
C3_Witness ==
    \E m \in Processed : \E c \in Tracked :
        /\ m > now_month
        /\ ~HasExplicitRow(c, m)
        /\ EarlierExplicit(c, m) /= {}
        /\ ExplicitRow(c, Latest(EarlierExplicit(c, m))).allocated > 0
        /\ Env(c, m).alloc = 0

\* a month in which the category has no explicit row, no transfer in or out
\* and no posted transaction
Quiet(c, m) ==
    /\ ~HasExplicitRow(c, m)
    /\ \A k \in DOMAIN transfers :
          transfers[k].month = m =>
              (transfers[k].from_category /= c /\ transfers[k].to_category /= c)
    /\ \A k \in DOMAIN trx_csv :
          (trx_csv[k].month = m /\ trx_csv[k].status = "posted") => trx_csv[k].detailed /= c

\* C5 as stated: in every index month, past, current or future, in which a
\* tracked category is quiet, its available equals that of the preceding
\* index month.
C5_Original ==
    \A m \in Processed : \A c \in Tracked :
        (~IsFirstIndexMonth(m) /\ Quiet(c, m))
        => Env(c, m).available = Env(c, PrevMonth(m)).available

\* C5 amended: in a quiet index month the available equals the preceding
\* index month's when the month is future, and the preceding month's plus the
\* category's last known explicit allocation (0 when it has none) when the
\* month is past or current.
C5_QuietMonth ==
    \A m \in Processed : \A c \in Tracked :
        (~IsFirstIndexMonth(m) /\ Quiet(c, m))
        => Env(c, m).available =
               Env(c, PrevMonth(m)).available
                 + (IF m <= now_month /\ EarlierExplicit(c, m) /= {}
                    THEN ExplicitRow(c, Latest(EarlierExplicit(c, m))).allocated
                    ELSE 0)

\* C5 witness: a quiet future month and a quiet past month of the same run,
\* for a category with a last known allocation and a non-zero balance.
C5_Witness ==
    \E c \in Tracked : \E mp \in Processed : \E mf \in Processed :
        /\ ~IsFirstIndexMonth(mp) /\ Quiet(c, mp) /\ mp <= now_month
        /\ EarlierExplicit(c, mp) /= {}
        /\ Quiet(c, mf) /\ mf > now_month
        /\ Env(c, mf).available = Env(c, PrevMonth(mf)).available
        /\ Env(c, mf).available /= 0

RemoveAt(s, k) == SubSeq(s, 1, k - 1) \o SubSeq(s, k + 1, Len(s))

\* the inputs without transfer row k
WithoutTransfer(k) == [In EXCEPT !.transfers = RemoveAt(transfers, k)]

\* C4 as stated: against the run without a transfer row (m, A, B, amt),
\* available[A, m] is exactly amt lower and available[B, m] exactly amt
\* higher, whatever A and B are, A = B included.
C4_Original ==
    pc = "done" =>
        \A k \in DOMAIN transfers :
            LET r == transfers[k]
                base == RunAll(WithoutTransfer(k))
            IN r.month \in DOMAIN base =>
                 /\ r.from_category \in Tracked =>
                        Env(r.from_category, r.month).available =
                            base[r.month].categories[r.from_category].available - r.amount
                 /\ r.to_category \in Tracked =>
                        Env(r.to_category, r.month).available =
                            base[r.month].categories[r.to_category].available + r.amount

\* C4 amended: when month m is an index month without the row as well, the
\* row (m, A, B, amt) changes the available of every tracked category c in
\* month m by ([c = B] - [c = A]) * amt: amt lower for A, amt higher for B
\* when A and B differ, nothing for a transfer from a category to itself,
\* nothing for the other categories.
C4_Conservation ==
    pc = "done" =>
        \A k \in DOMAIN transfers :
            LET r == transfers[k]
                base == RunAll(WithoutTransfer(k))
            IN r.month \in DOMAIN base =>
                 \A c \in Tracked :
                     Env(c, r.month).available =
                         base[r.month].categories[c].available
                           + (IF c = r.to_category THEN r.amount ELSE 0)
                           - (IF c = r.from_category THEN r.amount ELSE 0)

\* C4 witness: a finished run with a transfer between two different tracked
\* categories in a month that is an index month without the row too.
C4_Witness ==
    /\ pc = "done"
    /\ \E k \in DOMAIN transfers :
          /\ transfers[k].from_category /= transfers[k].to_category
          /\ {transfers[k].from_category, transfers[k].to_category} \subseteq Tracked
          /\ transfers[k].month \in DOMAIN RunAll(WithoutTransfer(k))
          /\ Env(transfers[k].from_category, transfers[k].month).available =
                 RunAll(WithoutTransfer(k))[transfers[k].month]
                     .categories[transfers[k].from_category].available
                   - transfers[k].amount

IndexMonths == SeqToSet(months_sorted)

\* C6: the month index holds the current month and every month an input
\* names (budget rows, transfer rows, balance snapshots, posted transactions
\* dated on or after the ledger start), and each gets a data_by_month entry.
C6_IndexCoversInputs ==
    /\ pc /= "start" =>
          /\ now_month \in IndexMonths
          /\ \A k \in DOMAIN budgets : budgets[k].month \in IndexMonths
          /\ \A k \in DOMAIN transfers : transfers[k].month \in IndexMonths
          /\ \A k \in DOMAIN balances : balances[k].month \in IndexMonths
          /\ \A k \in DOMAIN trx_csv :
                (trx_csv[k].status = "posted" /\ trx_csv[k].month >= BUDGET_START_MONTH)
                => trx_csv[k].month \in IndexMonths
    /\ pc = "done" => Processed = IndexMonths

\* the last known explicit allocation after the first n index months
KnownAfter(c, n) ==
    LET seen == {months_sorted[k] : k \in 1..n} \cap {x \in Months : HasExplicitRow(c, x)}
    IN IF seen = {} THEN 0 ELSE ExplicitRow(c, Latest(seen)).allocated

\* C7: the month index is strictly ascending without duplicates, and the walk
\* handles each index month exactly once in that order: after pos months the
\* processed months are the first pos of the index, each category's history
\* lists exactly those months in order, and the carried rollover and last
\* known allocation are those of the months before the next one.
C7_AscendingWalk ==
    /\ \A i \in DOMAIN months_sorted : \A j \in DOMAIN months_sorted :
          i < j => months_sorted[i] < months_sorted[j]
    /\ pc /= "start" =>
          /\ pos <= Len(months_sorted)
          /\ Processed = {months_sorted[k] : k \in 1..pos}
          /\ \A c \in Tracked :
                /\ Len(acc.cat_history[c]) = pos
                /\ \A k \in 1..pos : acc.cat_history[c][k].month = months_sorted[k]
                /\ Get(acc.rollovers, c, 0) =
                       (IF pos = 0 THEN 0 ELSE Env(c, months_sorted[pos]).available)
                /\ Get(acc.running_allocations, c, 0) = KnownAfter(c, pos)
    /\ pc = "done" => pos = Len(months_sorted)

\* C7 witness: a finished walk over at least three index months.
C7_Witness ==
    /\ pc = "done"
    /\ Len(months_sorted) >= 3
    /\ pos = Len(months_sorted)
    /\ Tracked /= {}

HasSnapshot(m) == \E k \in DOMAIN balances : balances[k].month = m

\* the last balances.csv row of month m
LastSnapshotRow(m) ==
    balances[CHOOSE k \in DOMAIN balances :
                 /\ balances[k].month = m
                 /\ \A j \in DOMAIN balances : balances[j].month = m => j <= k]

\* the net flow of the posted transactions of month m
NetFlow(m) ==
    SumOver({k \in DOMAIN trx_csv :
                trx_csv[k].status = "posted" /\ trx_csv[k].month = m},
            [k \in DOMAIN trx_csv |-> trx_csv[k].amount])

\* the index months up to m from the latest index month with a snapshot (from
\* the first index month when there is none)
SinceAnchor(m) ==
    LET snaps == {x \in IndexMonths : x <= m /\ HasSnapshot(x)}
    IN {x \in IndexMonths : x <= m /\ (snaps /= {} => Latest(snaps) <= x)}

\* C8 as stated: in an index month with a balance snapshot the snapshot is
\* the anchor and the reported txns_since_snapshot is 0, whatever the month's
\* own transactions.
C8_Original ==
    \A m \in Processed :
        HasSnapshot(m) =>
            /\ Summary(m).last_snapshot = LastSnapshotRow(m).balance
            /\ Summary(m).last_snapshot_month = m
            /\ Summary(m).txns_since_snapshot = 0

\* C8 amended: in an index month m_c with a balance snapshot the snapshot is
\* the anchor and the reported txns_since_snapshot is m_c's own net flow when
\* m_c is past or current and 0 when it is future, whatever the value of the
\* month before; in every index month the reported value is the net flow of
\* the past-or-current index months from the latest snapshot month on.
C8_SnapshotReset ==
    \A m \in Processed :
        /\ Summary(m).txns_since_snapshot =
               SumOver({x \in SinceAnchor(m) : x <= now_month}, [x \in Months |-> NetFlow(x)])
        /\ HasSnapshot(m) =>
               /\ Summary(m).last_snapshot = LastSnapshotRow(m).balance
               /\ Summary(m).last_snapshot_month = m
               /\ Summary(m).txns_since_snapshot = (IF m <= now_month THEN NetFlow(m) ELSE 0)

\* C8 witness: snapshots in index months m_a and m_c, a month m_b between
\* them with a non-zero accumulated flow and no snapshot, all processed.
C8_Witness ==
    \E ma \in Processed : \E mb \in Processed : \E mc \in Processed :
        /\ ma < mb /\ mb < mc
        /\ HasSnapshot(ma) /\ ~HasSnapshot(mb) /\ HasSnapshot(mc)
        /\ Summary(mb).txns_since_snapshot /= 0
        /\ Summary(mc).txns_since_snapshot = 0
        /\ Summary(mc).last_snapshot = LastSnapshotRow(mc).balance

\* C9: in every index month the reported bank is last_snapshot plus
\* txns_since_snapshot, the flow carried since the snapshot.
C9_BankIsCarried ==
    \A m \in Processed :
        Summary(m).bank = Summary(m).last_snapshot + Summary(m).txns_since_snapshot

\* C10: processing a future month leaves the accumulator as it was (or at 0
\* after a snapshot of that month), and the bank reported for a future month
\* holds none of that month's flow: it is the anchor alone, or the anchor
\* plus the carried flow.
C10_FutureFlowIgnored ==
    \A m \in Processed :
        m > now_month =>
            /\ Summary(m).txns_since_snapshot =
                   (IF HasSnapshot(m) \/ IsFirstIndexMonth(m) THEN 0
                    ELSE Summary(PrevMonth(m)).txns_since_snapshot)
            /\ Summary(m).bank \in
                   {Summary(m).last_snapshot,
                    Summary(m).last_snapshot + Summary(m).txns_since_snapshot}

\* ------------------------------------------------------------------------
\* What render shows of a month (lines 1089-1457)
\* ------------------------------------------------------------------------

\* snapLabel (lines 1179-1194): the planning strip, and with it the label,
\* exists for a future month only; None stands for "nothing shown"
SnapLabel(md) ==
    IF md.is_future
    THEN IF ~IsNone(md.summary.last_snapshot_month)
         THEN "EOM previous month"
         ELSE "no balance snapshot on record"
    ELSE None

\* C11: in an index month with no balance snapshot in any index month up to
\* it, the anchor last_snapshot is 0, last_snapshot_month is null, a live
\* balance is produced, and the page shows "no balance snapshot on record"
\* for that month, whether the month is past, current or future.
C11_NoSnapshotFlagged ==
    \A m \in Processed :
        (\A x \in IndexMonths : x <= m => ~HasSnapshot(x)) =>
            /\ Summary(m).last_snapshot = 0
            /\ IsNone(Summary(m).last_snapshot_month)
            /\ Summary(m).bank \in Int
            /\ SnapLabel(data_by_month[m]) = "no balance snapshot on record"

\* ------------------------------------------------------------------------
\* The month summary
\* ------------------------------------------------------------------------

\* the tracked categories the configuration does not exclude from the health
\* totals
NotConfiguredExcluded == {c \in Tracked : c \notin HEALTH_EXCLUSIONS}

\* the tracked categories the health totals of a month count: neither the
\* category nor the group its envelope is listed under is excluded
HealthCounted(m) ==
    {c \in Tracked : c \notin HEALTH_EXCLUSIONS
                       /\ Env(c, m).group \notin HEALTH_EXCLUSIONS}

\* whether any posted transaction of the file carries category c
EverSeen(c) ==
    \E k \in DOMAIN trx_csv : trx_csv[k].status = "posted" /\ trx_csv[k].detailed = c

\* C12: for every index month, holes is the sum of |available| over the
\* tracked categories that are not in the health-exclusion set and whose
\* available is below -0.01, whether or not a transaction was ever seen for
\* the category.
C12_HolesSum ==
    \A m \in Processed :
        Summary(m).holes =
            SumOver({c \in NotConfiguredExcluded : Env(c, m).available < -1},
                    [c \in Tracked |-> Abs(Env(c, m).available)])

\* the allocation the budgets file gives c for month m itself, 0 without a row
NewAllocation(c, m) == IF HasExplicitRow(c, m) THEN ExplicitRow(c, m).allocated ELSE 0

\* C13: excess of a past or current month is the sum of available over the
\* counted categories with available > 0.01, the month's new allocation never
\* subtracted; excess of a future month is the sum of (available - the
\* month's explicit new allocation) over the counted categories for which
\* the difference exceeds 0.01.
C13_Excess ==
    \A m \in Processed :
        Summary(m).excess =
            IF m > now_month
            THEN SumOver({c \in HealthCounted(m) :
                             Env(c, m).available - NewAllocation(c, m) > 1},
                         [c \in Tracked |-> Env(c, m).available - NewAllocation(c, m)])
            ELSE SumOver({c \in HealthCounted(m) : Env(c, m).available > 1},
                         [c \in Tracked |-> Env(c, m).available])

\* a past or current month and a future month have both been processed, each
\* with a counted envelope that has a new allocation and a surplus: the
\* first excess keeps the allocation, the second has it taken off
C13_Witness ==
    \E m1 \in Processed : \E m2 \in Processed :
        \E c1 \in HealthCounted(m1) : \E c2 \in HealthCounted(m2) :
            /\ m1 <= now_month /\ m2 > now_month
            /\ NewAllocation(c1, m1) > 0 /\ NewAllocation(c2, m2) > 0
            /\ Env(c1, m1).available > 1
            /\ Summary(m1).excess >= Env(c1, m1).available
            /\ Env(c2, m2).available - NewAllocation(c2, m2) > 1
            /\ Summary(m2).excess > 0
            /\ Summary(m2).excess < Env(c2, m2).available

\* the rows of the transaction file that are posted expenses of month m dated
\* on or after the ledger start
ExpenseRows(m) ==
    {k \in DOMAIN trx_csv :
        /\ trx_csv[k].status = "posted" /\ trx_csv[k].amount < 0
        /\ trx_csv[k].month = m /\ m >= BUDGET_START_MONTH}

\* an expense row the untracked-exclusion set removes from every count
Ignored(k) ==
    \/ trx_csv[k].detailed \in UNTRACKED_EXCLUSIONS
    \/ trx_csv[k].primary \in UNTRACKED_EXCLUSIONS

\* the expense rows of month m that have no envelope and are not ignored
UncategorizedRows(m) ==
    {k \in ExpenseRows(m) : trx_csv[k].detailed \notin Tracked /\ ~Ignored(k)}

ExpenseOf == [k \in DOMAIN trx_csv |-> -trx_csv[k].amount]

\* C14: only tracked categories have an EnvelopeState; every posted expense
\* of an index month dated on or after the ledger start is counted exactly
\* once: in the spent of the tracked envelope of its detailed category, else
\* in uncategorized_spend, unless its detailed or primary category is in the
\* untracked-exclusion set, and then nowhere; uncategorized_spend is the sum
\* of its breakdown uncategorized_cats.
C14_ExpensePartition ==
    \A m \in Processed :
        /\ DOMAIN data_by_month[m].categories = Tracked
        /\ \A c \in Tracked :
              Env(c, m).spent =
                  SumOver({k \in ExpenseRows(m) : trx_csv[k].detailed = c}, ExpenseOf)
        /\ Summary(m).uncategorized_spend = SumOver(UncategorizedRows(m), ExpenseOf)
        /\ DOMAIN Summary(m).uncategorized_cats =
              {trx_csv[k].detailed : k \in UncategorizedRows(m)}
        /\ \A dc \in DOMAIN Summary(m).uncategorized_cats :
              Summary(m).uncategorized_cats[dc] =
                  SumOver({k \in UncategorizedRows(m) : trx_csv[k].detailed = dc},
                          ExpenseOf)
        /\ Summary(m).uncategorized_spend = SumFn(Summary(m).uncategorized_cats)
        /\ SumOver(Tracked, [c \in Tracked |-> Env(c, m).spent])
              + Summary(m).uncategorized_spend
              + SumOver({k \in ExpenseRows(m) :
                            trx_csv[k].detailed \notin Tracked /\ Ignored(k)}, ExpenseOf)
             = SumOver(ExpenseRows(m), ExpenseOf)

\* a processed month holds an expense of a tracked category, an expense of a
\* category without an envelope and an ignored expense: the first is in
\* spent, the second is the whole of uncategorized_spend
C14_Witness ==
    \E m \in Processed :
        /\ \E k \in ExpenseRows(m) : trx_csv[k].detailed \in Tracked
        /\ UncategorizedRows(m) /= {}
        /\ \E k \in ExpenseRows(m) : trx_csv[k].detailed \notin Tracked /\ Ignored(k)
        /\ Summary(m).uncategorized_spend > 0
        /\ \E c \in Tracked : Env(c, m).spent > 0

\* the rows of the transaction file that are posted deposits of month m
DepositRows(m) ==
    {k \in DOMAIN trx_csv :
        trx_csv[k].status = "posted" /\ trx_csv[k].amount > 0 /\ trx_csv[k].month = m}

IsIncome(k) ==
    trx_csv[k].primary \in INCOME_CATEGORIES \/ trx_csv[k].detailed \in INCOME_CATEGORIES

AmountOf == [k \in DOMAIN trx_csv |-> trx_csv[k].amount]

\* C15: in every index month a posted deposit is counted in posted_income
\* iff its primary or detailed category is an income category, in
\* other_income iff neither category is an income category or an untracked
\* exclusion, and in neither otherwise; so posted_income + other_income is
\* at most the month's total of deposits.
C15_IncomeSplit ==
    \A m \in Processed :
        /\ Summary(m).posted_income = SumOver({k \in DepositRows(m) : IsIncome(k)}, AmountOf)
        /\ Summary(m).other_income =
              SumOver({k \in DepositRows(m) : ~IsIncome(k) /\ ~Ignored(k)}, AmountOf)
        /\ Summary(m).posted_income + Summary(m).other_income
              <= SumOver(DepositRows(m), AmountOf)

\* a processed month holds a deposit of an income category, a deposit of an
\* ordinary category and an ignored deposit: each total is positive and
\* together they stay under the month's deposits
C15_Witness ==
    \E m \in Processed :
        /\ \E k \in DepositRows(m) : IsIncome(k)
        /\ \E k \in DepositRows(m) : ~IsIncome(k) /\ ~Ignored(k)
        /\ \E k \in DepositRows(m) : ~IsIncome(k) /\ Ignored(k)
        /\ Summary(m).posted_income > 0
        /\ Summary(m).other_income > 0
        /\ Summary(m).posted_income + Summary(m).other_income
              < SumOver(DepositRows(m), AmountOf)

\* ------------------------------------------------------------------------
\* The page: its script state and handlers (lines 1020-1027, 1474-1579)
\* ------------------------------------------------------------------------

\* sorted() order of the category names the inputs use (line 73)
CategoryNames ==
    <<"Coffee shops", "Flights", "Groceries", "Personal care", "Pet supplies", "Rent",
      "Retail">>

\* the first occurrences of a list, in order: the keys of a dict filled from it
RECURSIVE Dedup(_)
Dedup(s) ==
    IF s = <<>> THEN <<>>
    ELSE LET rest == Dedup(SubSeq(s, 1, Len(s) - 1))
         IN IF s[Len(s)] \in SeqToSet(rest) THEN rest ELSE Append(rest, s[Len(s)])

\* "for (const group in m.categories) m.categories[group].forEach(...)": the
\* envelope names group by group, groups in the order lines 168-169 created
\* them, envelopes of a group in budgeted_cats order
EnvelopesOf(md) ==
    LET Has(c) == c \in DOMAIN md.categories
        names == SelectSeq(CategoryNames, Has)
        groups == Dedup([k \in DOMAIN names |-> md.categories[names[k]].group])
        RECURSIVE Flat(_)
        Flat(gs) ==
            IF gs = <<>> THEN <<>>
            ELSE LET InGroup(c) == md.categories[c].group = Head(gs)
                 IN SelectSeq(names, InGroup) \o Flat(Tail(gs))
    IN Flat(groups)

\* excluded (line 1512): DB.config.health_exclusions and DB.config.recurring
\* (lines 242-246)
excluded == HEALTH_EXCLUSIONS \cup RECURRING_ENVELOPES

\* underfunded (lines 1515-1523)
Underfunded(md) ==
    LET Under(c) == c \notin excluded /\ md.categories[c].available < -1
        sel == SelectSeq(EnvelopesOf(md), Under)
    IN [k \in DOMAIN sel |->
           [name |-> sel[k], need |-> Abs(md.categories[sel[k]].available)]]

\* surplus (lines 1515-1523)
Surplus(md) ==
    LET Over(c) == /\ c \notin excluded
                   /\ ~(md.categories[c].available < -1)
                   /\ md.categories[c].available > 1
        sel == SelectSeq(EnvelopesOf(md), Over)
    IN [k \in DOMAIN sel |-> [name |-> sel[k], avail |-> md.categories[sel[k]].available]]

\* the positions of a list by descending key; Array.prototype.sort is stable,
\* so ties keep their order
RECURSIVE OrderDescending(_, _)
OrderDescending(key, I) ==
    IF I = {} THEN <<>>
    ELSE LET i == CHOOSE x \in I :
                      \A y \in I : key[x] > key[y] \/ (key[x] = key[y] /\ x <= y)
         IN <<i>> \o OrderDescending(key, I \ {i})

\* underfunded.sort((a, b) => b.need - a.need) (line 1528)
SortByNeed(underfunded) ==
    LET o == OrderDescending([k \in DOMAIN underfunded |-> underfunded[k].need],
                             DOMAIN underfunded)
    IN [j \in DOMAIN underfunded |-> underfunded[o[j]]]

\* surplus.sort((a, b) => b.avail - a.avail) (line 1529)
SortByAvail(surplus) ==
    LET o == OrderDescending([k \in DOMAIN surplus |-> surplus[k].avail], DOMAIN surplus)
    IN [j \in DOMAIN surplus |-> surplus[o[j]]]

\* "x < 0.01" on s.avail and remaining (lines 1537, 1542).  These are binary
\* doubles left by subtractions, never rounded: a value that is some whole
\* cents compares as that, except a residue of exactly one cent, which the
\* subtraction leaves just under or just over the double 0.01
\* (50 - 49.99 < 0.01 is true, 1.01 - 1 < 0.01 is false).  under tells which.
BelowCent(x, under) == x < 1 \/ (x = 1 /\ under)

Min(a, b) == IF a < b THEN a ELSE b

\* a draw of the whole remaining need, whatever the surplus envelope holds
MoveAllNeeded(avail, remaining) == remaining

\* move (line 1538)
Move(avail, remaining) == Min(avail, remaining)

\* parseFloat(move.toFixed(2)) (line 1539): the move to the nearest cent
ToFixed2(move) == move

\* the inner loop "for (const s of surplusLeft)" (lines 1536-1543) from the
\* j-th surplus envelope on, for the underfunded envelope u with remaining
\* still to cover.  st holds surplusLeft and newMoves; dust is the set of
\* envelopes whose one-cent residue compares below 0.01.
RECURSIVE DrawFrom(_, _, _, _, _, _)
DrawFrom(u, remaining, j, st, dust, cur) ==
    IF j > Len(st.surplusLeft) THEN st
    ELSE LET sl == st.surplusLeft[j]
         IN IF \/ BelowCent(sl.avail, sl.name \in dust)
               \/ BelowCent(remaining, u.name \in dust)
            THEN DrawFrom(u, remaining, j + 1, st, dust, cur)
            ELSE LET move == Move(sl.avail, remaining)
                     after ==
                         [surplusLeft |->
                              [st.surplusLeft EXCEPT ![j].avail = @ - move],
                          newMoves |->
                              Append(st.newMoves,
                                     [month |-> cur, from |-> sl.name, to |-> u.name,
                                      amount |-> ToFixed2(move),
                                      note |-> "smart rebalance"])]
                 IN IF BelowCent(remaining - move, u.name \in dust)
                    THEN after
                    ELSE DrawFrom(u, remaining - move, j + 1, after, dust, cur)

\* the outer loop "for (const u of underfunded)" (lines 1534-1544)
RECURSIVE Serve(_, _, _, _)
Serve(underfunded, st, dust, cur) ==
    IF underfunded = <<>> THEN st
    ELSE LET u == Head(underfunded)
         IN Serve(Tail(underfunded), DrawFrom(u, u.need, 1, st, dust, cur), dust, cur)

\* newMoves of one smartRebalance on the month data md (lines 1511-1544)
NewMoves(md, cur, dust) ==
    LET underfunded == Underfunded(md)
        surplus == Surplus(md)
    IN IF underfunded = <<>> \/ surplus = <<>> THEN <<>>
       ELSE Serve(SortByNeed(underfunded),
                  [surplusLeft |-> SortByAvail(surplus), newMoves |-> <<>>],
                  dust, cur).newMoves

\* applyWhatifDeltas (lines 1498-1507)
RECURSIVE ApplyWhatifDeltas(_, _, _)
ApplyWhatifDeltas(queue, mode, cur) ==
    IF ~mode \/ queue = <<>> THEN EmptyDict
    ELSE LET n == Len(queue)
             d == ApplyWhatifDeltas(SubSeq(queue, 1, n - 1), mode, cur)
             r == queue[n]
         IN IF r.month /= cur THEN d
            ELSE LET d1 == Put(d, r.from, Get(d, r.from, 0) - r.amount)
                 IN Put(d1, r.to, Get(d1, r.to, 0) + r.amount)

\* DB.data_by_month with the proposed moves written into the envelopes
LedgerWithMoves(db, cur, moves) ==
    LET d == ApplyWhatifDeltas(moves, TRUE, cur)
    IN [m \in DOMAIN db |->
           IF m /= cur THEN db[m]
           ELSE [db[m] EXCEPT !.categories =
                    [c \in DOMAIN db[m].categories |->
                        [db[m].categories[c] EXCEPT !.available = @ + Get(d, c, 0)]]]]

\* DB.data_by_month after smartRebalance: the lists it works on hold fresh
\* {name, need} and {name, avail} objects (lines 1520-1521, 1532), so the
\* draws never reach the envelopes of DB
LedgerAfterAdvice(db, cur, moves) == db

\* the script's first statements and first render (lines 1020-1027, 1664-1665)
LoadPage ==
    /\ pc = "done"
    /\ pc' = "page"
    /\ curMonth' = now_month
    /\ transferQueue' = <<>>
    /\ whatifMode' = FALSE
    /\ whatifDeltas' = EmptyDict
    /\ UNCHANGED <<inputs, months_sorted, pos, acc, data_by_month>>

\* changeMonth(dir) (lines 1474-1480)
ChangeMonth ==
    /\ pc = "page"
    /\ \E dir \in {-1, 1} :
          LET i == IndexOf(curMonth)
          IN /\ i + dir >= 1 /\ i + dir <= Len(months_sorted)
             /\ curMonth' = months_sorted[i + dir]
    /\ UNCHANGED <<inputs, pc, months_sorted, pos, acc, data_by_month,
                   transferQueue, whatifMode, whatifDeltas>>

\* toggleWhatif() (lines 1490-1496)
ToggleWhatif ==
    /\ pc = "page"
    /\ whatifMode' = ~whatifMode
    /\ whatifDeltas' = IF ~whatifMode' THEN EmptyDict ELSE whatifDeltas
    /\ UNCHANGED <<inputs, pc, months_sorted, pos, acc, data_by_month,
                   curMonth, transferQueue>>

\* the envelopes smartRebalance holds in a list
Listed(md) ==
    {Underfunded(md)[k].name : k \in DOMAIN Underfunded(md)}
        \cup {Surplus(md)[k].name : k \in DOMAIN Surplus(md)}

\* smartRebalance() (lines 1510-1554); it returns early, changing nothing,
\* when a list or newMoves is empty
SmartRebalance ==
    /\ pc = "page"
    /\ \E dust \in SUBSET Listed(data_by_month[curMonth]) :
          LET newMoves == NewMoves(data_by_month[curMonth], curMonth, dust)
          IN /\ newMoves /= <<>>
             /\ Len(transferQueue) + Len(newMoves) <= MaxQueue
             /\ transferQueue' = transferQueue \o newMoves
             /\ whatifDeltas' =
                   IF whatifMode
                   THEN ApplyWhatifDeltas(transferQueue', whatifMode, curMonth)
                   ELSE whatifDeltas
             /\ data_by_month' = LedgerAfterAdvice(data_by_month, curMonth, newMoves)
    /\ UNCHANGED <<inputs, pc, months_sorted, pos, acc, curMonth, whatifMode>>

\* the values the transfer form can hold: an envelope or the empty first
\* option in each select (lines 993-995, 1451-1456), the parsed amount
\* (0 for an empty or zero field)
FormCats == {"", "Groceries", "Retail"}
FormAmounts == {0, 2500}

\* addToQueue() (lines 1562-1573); note is left empty
AddToQueue ==
    /\ pc = "page"
    /\ Len(transferQueue) < MaxQueue
    /\ \E f \in FormCats : \E t \in FormCats : \E a \in FormAmounts :
          /\ ~(f = "" \/ t = "" \/ a = 0 \/ f = t)
          /\ f \in DOMAIN data_by_month[curMonth].categories
          /\ t \in DOMAIN data_by_month[curMonth].categories
          /\ transferQueue' =
                Append(transferQueue,
                       [month |-> curMonth, from |-> f, to |-> t, amount |-> a,
                        note |-> "rebalance"])
    /\ whatifDeltas' =
          IF whatifMode THEN ApplyWhatifDeltas(transferQueue', whatifMode, curMonth)
          ELSE whatifDeltas
    /\ UNCHANGED <<inputs, pc, months_sorted, pos, acc, data_by_month,
                   curMonth, whatifMode>>

\* removeFromQueue(idx) (lines 1575-1579), idx from a rendered queue item
RemoveFromQueue ==
    /\ pc = "page"
    /\ \E idx \in 0..(Len(transferQueue) - 1) :
          transferQueue' = RemoveAt(transferQueue, idx + 1)
    /\ whatifDeltas' =
          IF whatifMode THEN ApplyWhatifDeltas(transferQueue', whatifMode, curMonth)
          ELSE whatifDeltas
    /\ UNCHANGED <<inputs, pc, months_sorted, pos, acc, data_by_month,
                   curMonth, whatifMode>>

\* Advisor runs: the ledger's first month allocates 100.00 to each envelope
\* and each envelope has spent one of a few amounts (0: no transaction at
\* all); the page is opened and the advisor run on any month.
SpendChoices ==
    [c \in {"Groceries", "Coffee shops", "Retail", "Personal care", "Rent", "Flights"} |->
        CASE c = "Groceries" -> {15000, 9000}
          [] c = "Coffee shops" -> {13000, 10000}
          [] c = "Retail" -> {6000, 5001, 10000}
          [] c = "Personal care" -> {5500, 0}
          [] c = "Rent" -> {15000, 2000}
          [] c = "Flights" -> {10000, 4000}]

\* the rows of one ledger: an allocation per envelope, an expense where spent
LedgerRows(spent) ==
    LET RECURSIVE Rows(_)
        Rows(cs) ==
            IF cs = <<>> THEN <<>>
            ELSE LET c == Head(cs)
                 IN IF c \notin DOMAIN spent THEN Rows(Tail(cs))
                    ELSE <<Budget(BUDGET_START_MONTH, c, 10000)>>
                           \o (IF spent[c] > 0
                               THEN <<Trx(BUDGET_START_MONTH, -spent[c], "posted", c)>>
                               ELSE <<>>)
                           \o Rows(Tail(cs))
    IN Rows(CategoryNames)

Ledgers(choices) ==
    {LedgerRows(spent) :
        spent \in {f \in [DOMAIN choices -> UNION {choices[c] : c \in DOMAIN choices}] :
                      \A c \in DOMAIN choices : f[c] \in choices[c]}}

InitAdvisor == InitRows(<<>>, <<>>, Ledgers(SpendChoices))

NextAdvisor ==
    BuildIndex \/ ProcessMonth \/ Finish \/ LoadPage \/ ChangeMonth \/ SmartRebalance

SpecAdvisor == InitAdvisor /\ [][NextAdvisor]_vars

\* Page runs: the ledger of the worked example (needs 50.00 and 30.00,
\* surpluses 40.00 and 45.00, Rent short by 50.00), every handler of the page.
PageChoices ==
    [c \in {"Groceries", "Coffee shops", "Retail", "Personal care", "Rent", "Flights"} |->
        CASE c = "Groceries" -> {15000}
          [] c = "Coffee shops" -> {13000}
          [] c = "Retail" -> {6000}
          [] c = "Personal care" -> {5500}
          [] c = "Rent" -> {15000}
          [] c = "Flights" -> {10000}]

InitPage == InitRows(<<>>, <<>>, Ledgers(PageChoices))

NextPage ==
    \/ BuildIndex \/ ProcessMonth \/ Finish \/ LoadPage
    \/ ChangeMonth \/ ToggleWhatif \/ SmartRebalance \/ AddToQueue \/ RemoveFromQueue

SpecPage == InitPage /\ [][NextPage]_vars

\* Advisor runs on ledgers with three envelopes short and three with money
\* left, among them surpluses one cent above a need
ReplayChoices ==
    [c \in {"Groceries", "Coffee shops", "Retail", "Personal care", "Pet supplies",
             "Flights"} |->
        CASE c = "Groceries" -> {13007}
          [] c = "Coffee shops" -> {12007, 10000}
          [] c = "Retail" -> {11507, 11000}
          [] c = "Personal care" -> {6992}
          [] c = "Pet supplies" -> {7992, 7000}
          [] c = "Flights" -> {8495, 4000}]

InitReplay == InitRows(<<>>, <<>>, Ledgers(ReplayChoices))

SpecReplay == InitReplay /\ [][NextAdvisor]_vars

\* ------------------------------------------------------------------------
\* The rebalancing advisor
\* ------------------------------------------------------------------------

\* the envelopes of the month the page shows
Shown == data_by_month[curMonth].categories

Available(c) == Shown[c].available

\* the envelopes the advisor may touch by the configuration: neither a
\* health-excluded nor a recurring category
Eligible == {c \in DOMAIN Shown : c \notin HEALTH_EXCLUSIONS /\ c \notin RECURRING_ENVELOPES}

UnderfundedSet == {c \in Eligible : Available(c) < -1}

SurplusSet == {c \in Eligible : Available(c) > 1}

Need(c) == -Available(c)

TotalNeed == SumOver(UnderfundedSet, [c \in DOMAIN Shown |-> Need(c)])

TotalSurplus == SumOver(SurplusSet, [c \in DOMAIN Shown |-> Available(c)])

\* a step in which smartRebalance queued its proposals
AdviceStep ==
    /\ pc = "page" /\ pc' = "page"
    /\ Len(transferQueue') > Len(transferQueue)
    /\ transferQueue'[Len(transferQueue')].note = "smart rebalance"

\* the transfers such a step proposed, in the order proposed
Proposed == SubSeq(transferQueue', Len(transferQueue) + 1, Len(transferQueue'))

\* the amounts of the first n transfers of moves into, and out of, envelope c
Into(moves, n, c) ==
    SumOver({k \in 1..n : moves[k].to = c}, [k \in DOMAIN moves |-> moves[k].amount])

OutOf(moves, n, c) ==
    SumOver({k \in 1..n : moves[k].from = c}, [k \in DOMAIN moves |-> moves[k].amount])

\* C16: one run of the advisor proposes transfers whose amounts add up to
\* min(total need of the underfunded envelopes, total available of the
\* surplus envelopes).
C16_TotalMoved ==
    [][AdviceStep =>
          SumSeq([k \in DOMAIN Proposed |-> Proposed[k].amount])
              = Min(TotalNeed, TotalSurplus)]_vars

\* C17: in one run of the advisor every proposed transfer has a strictly
\* positive amount, equal to min(remaining need, remaining surplus) at the
\* time of the draw; what is proposed into an underfunded envelope adds up to
\* at most its need and what is proposed out of a surplus envelope to at most
\* its available.
C17_DrawsWithinBounds ==
    [][AdviceStep =>
          /\ \A i \in DOMAIN Proposed :
                LET mv == Proposed[i]
                IN /\ mv.amount > 0
                   /\ mv.amount = Min(Need(mv.to) - Into(Proposed, i - 1, mv.to),
                                      Available(mv.from) - OutOf(Proposed, i - 1, mv.from))
          /\ \A c \in UnderfundedSet : Into(Proposed, Len(Proposed), c) <= Need(c)
          /\ \A c \in SurplusSet : OutOf(Proposed, Len(Proposed), c) <= Available(c)]_vars

\* the advisor has queued transfers out of one surplus envelope into two
\* underfunded envelopes
C17_Witness ==
    /\ pc = "page"
    /\ \E i \in DOMAIN transferQueue : \E j \in DOMAIN transferQueue :
          /\ i < j
          /\ transferQueue[i].note = "smart rebalance"
          /\ transferQueue[j].note = "smart rebalance"
          /\ transferQueue[i].month = transferQueue[j].month
          /\ transferQueue[i].from = transferQueue[j].from
          /\ transferQueue[i].to /= transferQueue[j].to

\* C18: when a transfer is proposed into an underfunded envelope, every
\* underfunded envelope with a larger need has already been proposed its full
\* need; when a surplus envelope is drawn from, every larger surplus envelope
\* is already depleted.
C18_GreedyOrder ==
    [][AdviceStep =>
          \A i \in DOMAIN Proposed :
              LET mv == Proposed[i]
              IN /\ \A x \in UnderfundedSet :
                        Need(x) > Need(mv.to) => Into(Proposed, i - 1, x) = Need(x)
                 /\ \A z \in SurplusSet :
                        Available(z) > Available(mv.from) =>
                            OutOf(Proposed, i - 1, z) = Available(z)]_vars

\* the envelopes of the shown month that the health summary counts
CountedShown ==
    {c \in DOMAIN Shown : c \notin HEALTH_EXCLUSIONS /\ Shown[c].group \notin HEALTH_EXCLUSIONS}

\* C20: every transfer the advisor proposes goes from an envelope with
\* available > 0.01 to one with available < -0.01, neither recurring nor left
\* out of the health summary; with no underfunded or no surplus envelope the
\* queue stays as it is.
C20_OnlyEligible ==
    [][/\ AdviceStep =>
            \A i \in DOMAIN Proposed :
                LET mv == Proposed[i]
                IN /\ Available(mv.from) > 1
                   /\ Available(mv.to) < -1
                   /\ {mv.from, mv.to} \cap RECURRING_ENVELOPES = {}
                   /\ {mv.from, mv.to} \subseteq CountedShown
       /\ (pc = "page" /\ (UnderfundedSet = {} \/ SurplusSet = {})) =>
            transferQueue' = transferQueue]_vars

\* C19: with the page open, no handler (smartRebalance, addToQueue,
\* removeFromQueue, toggleWhatif, changeMonth) changes DB.data_by_month or
\* the month index, and a run of the advisor only appends to the queue.
C19_LedgerUntouched ==
    [][pc = "page" =>
          /\ data_by_month' = data_by_month
          /\ months_sorted' = months_sorted
          /\ AdviceStep =>
                SubSeq(transferQueue', 1, Len(transferQueue)) = transferQueue]_vars

\* the page is in what-if mode on another month than the current one, with a
\* proposal of the advisor and a transfer added by hand in the queue and
\* their deltas computed
C19_Witness ==
    /\ pc = "page"
    /\ whatifMode
    /\ curMonth /= now_month
    /\ whatifDeltas /= EmptyDict
    /\ \E i \in DOMAIN transferQueue : transferQueue[i].note = "smart rebalance"
    /\ \E i \in DOMAIN transferQueue : transferQueue[i].note = "rebalance"

\* ------------------------------------------------------------------------
\* C21: determinism of process_data
\* ------------------------------------------------------------------------
\* the same data files, reconciled when the clock reads month n
RunAt(n) == RunAll([In EXCEPT !.now = n])

WithoutBudget(k) == [In EXCEPT !.budgets = RemoveAt(budgets, k)]

\* a transfer row one of whose ends is not a tracked category
NamesUntracked(r) == r.from_category \notin Tracked \/ r.to_category \notin Tracked

\* C22 as stated: taking a budget row away leaves the set of categories with
\* an envelope as it was in every month both runs have, and taking away a
\* transfer row that names an untracked category leaves every tracked
\* envelope's available as it was.
C22_TrackedSetFixed ==
    pc = "done" =>
        /\ \A k \in DOMAIN budgets :
              LET other == RunAll(WithoutBudget(k))
              IN \A m \in Processed \cap DOMAIN other :
                     DOMAIN other[m].categories = DOMAIN data_by_month[m].categories
        /\ \A k \in DOMAIN transfers :
              NamesUntracked(transfers[k]) =>
                  LET other == RunAll(WithoutTransfer(k))
                  IN \A m \in Processed \cap DOMAIN other : \A c \in Tracked :
                         other[m].categories[c].available = Env(c, m).available

\* ------------------------------------------------------------------------
\* C23: transactions with an empty or unparseable amount or date
\* ------------------------------------------------------------------------
\* a record whose amount and date both parse
WellFormed(r) == r.amount_cell = "ok" /\ r.date_cell = "ok"

\* the inputs with the records that do not parse taken out
WithoutUnparsed == [In EXCEPT !.trx = SelectSeq(trx_csv, WellFormed)]

\* C23 as stated: a record whose amount or date is missing or malformed
\* never aborts the run, and the finished run equals the run on the files
\* without such records: same index months, same envelopes, same summaries.
C23_UnparsedExcluded ==
    /\ pc # "aborted"
    /\ pc = "done" => data_by_month = RunAll(WithoutUnparsed)

\* ------------------------------------------------------------------------
\* render(): the percentages and ratios it puts on the page
\* ------------------------------------------------------------------------
\* what the page shows for one ratio: a number, nothing at all ("hidden"),
\* or the text a division by zero produces in JavaScript
Hidden == [kind |-> "hidden", value |-> 0]

Number(n) == [kind |-> "number", value |-> n]

\* Math.round((a / b) * 100): 0 / 0 is NaN, a / 0 is Infinity, and no
\* exception is thrown
RoundedPercent(a, b) ==
    IF b = 0 THEN [kind |-> IF a = 0 THEN "NaN" ELSE "Infinity", value |-> 0]
    ELSE LET n == IF b > 0 THEN a ELSE -a
             d == IF b > 0 THEN b ELSE -b
         IN Number((200 * n + d) \div (2 * d))

\* monthProgress() (lines 1030-1035) on day `day` of a month of `total` days
MonthProgress(day, total) == [elapsed |-> day, total |-> total]

\* the income bar's pct (lines 1101-1122)
IncomePct(md) ==
    IF md.summary.expected_income = 0 THEN Hidden
    ELSE IF md.is_future THEN Hidden
    ELSE LET pct == RoundedPercent(md.summary.posted_income, md.summary.expected_income)
         IN Number(Min(100, pct.value))

\* "new allocations (N% of expected)" in the planning view (lines 1179, 1255)
NewAllocationsPct(md) ==
    IF md.is_future
    THEN RoundedPercent(md.summary.new_funding, md.summary.expected_income)
    ELSE Hidden

\* spentPct of a variable envelope (lines 1378-1379)
SpentPct(cat, md) ==
    IF cat.is_variable /\ ~md.is_future /\ cat.budgeted > 0
    THEN RoundedPercent(cat.spent, cat.budgeted)
    ELSE Hidden

\* eomProjected, in whole cents (lines 1378, 1382): spent / pct with
\* pct = elapsed / total
EomProjected(cat, md, prog) ==
    IF cat.is_variable /\ ~md.is_future /\ cat.budgeted > 0
    THEN IF prog.elapsed > 0
         THEN Number((cat.spent * prog.total) \div prog.elapsed)
         ELSE Number(cat.spent)
    ELSE Hidden

\* process_data on a few rows and any configured income, then the page
\* moving between the months
ViewKinds ==
    {Budget(m, "Groceries", a) : m \in Months, a \in {0, 12000}}
        \cup {Trx(m, -2500, "posted", "Groceries") : m \in Months}
        \cup {Trx(BUDGET_START_MONTH, 262250, "posted", "Wages")}

InitView ==
    InitConfigured(<<>>, <<>>, Draws(ViewKinds, MaxViewRows),
                   {0, EXPECTED_MONTHLY_INCOME})

NextView == BuildIndex \/ ProcessMonth \/ Finish \/ LoadPage \/ ChangeMonth

SpecView == InitView /\ [][NextView]_vars

\* ------------------------------------------------------------------------
\* C24: no ratio with a zero denominator
\* ------------------------------------------------------------------------
\* the days of the month on which the page may be opened
ViewDays == {MonthProgress(d, 30) : d \in {1, 15, 30}}

IsDefined(ratio) == ratio.kind \in {"number", "hidden"}

\* const m = DB.data_by_month[curMonth] (line 1090)
ViewedMonth == data_by_month[curMonth]

\* C24 as stated: in every month view, past, current or future, each ratio
\* the page shows (income percent of expected, new allocations percent of
\* expected income, a variable envelope's spent / budgeted and its
\* end-of-month projection) is a number or is left out, and is never the
\* outcome of a division by zero.
C24_NoZeroDenominator ==
    pc = "page" =>
        /\ IsDefined(IncomePct(ViewedMonth))
        /\ IsDefined(NewAllocationsPct(ViewedMonth))
        /\ \A c \in DOMAIN ViewedMonth.categories :
              /\ IsDefined(SpentPct(ViewedMonth.categories[c], ViewedMonth))
              /\ \A prog \in ViewDays :
                    IsDefined(EomProjected(ViewedMonth.categories[c], ViewedMonth, prog))

\* ------------------------------------------------------------------------
\* C25: prev_available
\* ------------------------------------------------------------------------
\* C25 as stated: for every tracked category and index month, prev_available
\* is the category's available of the previous index month, and None for the
\* first index month.
C25_PrevAvailable ==
    pc = "done" =>
        \A m \in Processed : \A c \in Tracked :
            IF IsFirstIndexMonth(m)
            THEN IsNone(Env(c, m).prev_available)
            ELSE /\ ~IsNone(Env(c, m).prev_available)
                 /\ Env(c, m).prev_available = Env(c, PrevMonth(m)).available

\* ------------------------------------------------------------------------
\* C26: calendar months between index months
\* ------------------------------------------------------------------------
\* C26 as stated: every calendar month from the earliest to the latest index
\* month is itself evaluated and has an envelope for every tracked category,
\* whether or not a budget row, transfer or transaction names it.
C26_NoMonthSkipped ==
    pc = "done" =>
        \A m \in Months :
            (months_sorted[1] <= m /\ m <= months_sorted[Len(months_sorted)])
            => /\ m \in Processed
               /\ Tracked \subseteq DOMAIN data_by_month[m].categories

\* ------------------------------------------------------------------------
\* C27: total_enveloped and rollover_into_month
\* ------------------------------------------------------------------------
\* every transfer row of month m moves money between two tracked categories
TransfersStayTracked(m) ==
    \A k \in DOMAIN transfers :
        transfers[k].month = m =>
            /\ transfers[k].from_category \in Tracked
            /\ transfers[k].to_category \in Tracked

\* C27: for every index month, total_enveloped is the sum of available over
\* all tracked categories, none left out; rollover_into_month is the
\* preceding index month's total_enveloped, 0 for the first index month; and
\* when every transfer of the month is between tracked categories,
\* total_enveloped = rollover_into_month + the allocations used in the month
\* - the month's spent + the month's refunds.
C27_TotalEnveloped ==
    \A m \in Processed :
        /\ Summary(m).total_enveloped =
               SumOver(Tracked, [c \in Tracked |-> Env(c, m).available])
        /\ Summary(m).rollover_into_month =
               (IF IsFirstIndexMonth(m) THEN 0
                ELSE Summary(PrevMonth(m)).total_enveloped)
        /\ TransfersStayTracked(m) =>
               Summary(m).total_enveloped =
                   Summary(m).rollover_into_month
                     + SumOver(Tracked, [c \in Tracked |-> Env(c, m).alloc])
                     - SumOver(Tracked, [c \in Tracked |-> Env(c, m).spent])
                     + SumOver(Tracked, [c \in Tracked |-> Env(c, m).refunds])

\* C27 witness: a month after the first with money rolled in, a transfer
\* between two different tracked categories, spending and a refund, and an
\* envelope that net health leaves out but total_enveloped counts.
C27_Witness ==
    \E m \in Processed :
        /\ ~IsFirstIndexMonth(m)
        /\ Summary(m).rollover_into_month > 0
        /\ \E k \in DOMAIN transfers :
              /\ transfers[k].month = m
              /\ transfers[k].from_category /= transfers[k].to_category
        /\ TransfersStayTracked(m)
        /\ \E c \in Tracked : Env(c, m).spent > 0 /\ Env(c, m).refunds > 0
        /\ \E c \in Tracked \ HealthCounted(m) : Env(c, m).available > 0
        /\ Summary(m).total_enveloped /= Summary(m).rollover_into_month

\* ------------------------------------------------------------------------
\* C28: the what-if deltas
\* ------------------------------------------------------------------------
\* wiDelta of envelope c in render (line 1349)
WiDelta(c) == IF whatifMode THEN Get(whatifDeltas, c, 0) ELSE 0

\* the queue entries for the displayed month
QueuedHere == {k \in DOMAIN transferQueue : transferQueue[k].month = curMonth}

QueuedAmount == [k \in DOMAIN transferQueue |-> transferQueue[k].amount]

\* C28 as stated: with the page open, when what-if mode is on the delta
\* applied to each envelope of the displayed month is what the queue entries
\* for that month move into it minus what they move out of it; when what-if
\* mode is off no delta is applied; and the deltas add up to zero.
C28_DeltasFollowQueue ==
    pc = "page" =>
        /\ \A c \in DOMAIN ViewedMonth.categories :
              WiDelta(c) =
                  IF whatifMode
                  THEN SumOver({k \in QueuedHere : transferQueue[k].to = c}, QueuedAmount)
                         - SumOver({k \in QueuedHere : transferQueue[k].from = c},
                                   QueuedAmount)
                  ELSE 0
        /\ SumOver(DOMAIN whatifDeltas, whatifDeltas) = 0

\* ------------------------------------------------------------------------
\* C29: the advisor run again on the same month
\* ------------------------------------------------------------------------
\* the entries of queue q for the displayed month
ForShownMonth(q) ==
    LET Here(r) == r.month = curMonth
    IN SelectSeq(q, Here)

\* C29 as stated: after a run of the advisor the queued transfers for the
\* displayed month give no envelope more in total than its need and take
\* from no envelope more in total than its available surplus, and a run on
\* a month whose queue already holds the advisor's proposals adds nothing.
C29_RepeatedAdvice ==
    [][AdviceStep =>
          LET q == ForShownMonth(transferQueue')
          IN /\ \A c \in DOMAIN Shown :
                   /\ Into(q, Len(q), c) <= (IF Available(c) < 0 THEN Need(c) ELSE 0)
                   /\ OutOf(q, Len(q), c) <= (IF Available(c) > 0 THEN Available(c) ELSE 0)
             /\ \A k \in DOMAIN transferQueue :
                   ~(/\ transferQueue[k].month = curMonth
                     /\ transferQueue[k].note = "smart rebalance")]_vars

\* ------------------------------------------------------------------------
\* C30: the advisor's proposals written to transfers.csv
\* ------------------------------------------------------------------------
\* the queued transfers as rows of transfers.csv
AsTransferRows(moves) ==
    [k \in DOMAIN moves |->
        [month |-> moves[k].month, from_category |-> moves[k].from,
         to_category |-> moves[k].to, amount |-> moves[k].amount]]

\* the displayed month after reconciliation is run again with moves appended
\* to transfers.csv
Replayed(moves) ==
    RunAll([In EXCEPT !.transfers = transfers \o AsTransferRows(moves)])[curMonth]

\* C30 as stated: once the proposals of one run of the advisor are appended
\* as transfer rows and reconciliation is run again, no proposed source has
\* a negative available, every destination's available is at most 0 and not
\* lower than before, and, when the total surplus was at least the total
\* need, no envelope the advisor considers is left below -0.01 and a second
\* run of the advisor proposes nothing.
C30_ReplayedAdvice ==
    [][AdviceStep =>
          \A moves \in {Proposed} : \A after \in {Replayed(moves)} :
             /\ \A i \in DOMAIN moves :
                   /\ after.categories[moves[i].from].available >= 0
                   /\ after.categories[moves[i].to].available <= 0
                   /\ after.categories[moves[i].to].available >= Available(moves[i].to)
             /\ TotalSurplus >= TotalNeed =>
                   /\ \A c \in Eligible : ~(after.categories[c].available < -1)
                   /\ \A dust \in SUBSET Listed(after) :
                          NewMoves(after, curMonth, dust) = <<>>]_vars

====
